---- MODULE Spec2Model ----
(***************************************************************************)
(* A model of sitekit/web/assets.go (package web): the Assets registry,    *)
(* its lazy load -> preprocess -> gzip -> sha1 -> publish pipeline (Get),  *)
(* the checksum-addressed HTTP handler (Serve), the CSS / source-map       *)
(* reference rewriter (replaceProcessor) and the template cache            *)
(* (GetTemplate).                                                          *)
(*                                                                         *)
(* Goroutines are the elements of Threads.  Every action is one access to  *)
(* shared memory (a map read or write under f.lock, or an unlocked read or *)
(* write of a *File field) together with the goroutine-local computation   *)
(* that precedes it.                                                       *)
(*                                                                         *)
(* Text is a sequence of atoms.  An atom is a record [k, v]: a run of      *)
(* ordinary characters ("seg"), the 40 hex digits of a digest ("hex"), a   *)
(* gzip stream ("gz"), or, inside file content, a piece of text that one   *)
(* of the two regular expressions matches ("url", "map") or a template     *)
(* definition ("def").                                                     *)
(***************************************************************************)
EXTENDS Naturals, Sequences, FiniteSets, TLC

(* ------------------------------ bounds -------------------------------- *)

\* AddFile calls in one run (version counts them).
MaxVersion == 2
\* AddPreprocessor + ClearPreprocessors calls in one run.
MaxPreOps == 1
\* Get / GetUrl / Serve / GetTemplate calls in one run.
MaxCalls == 3
\* SetTemplateFunc calls in one run.
MaxFuncOps == 1

Threads == {1, 2}

(* ------------------------------- text --------------------------------- *)

Seg(s) == [k |-> "seg", v |-> s]
Slash == Seg("/")

\* A []byte value: nil, or a (possibly empty) slice.
NilBytes == [k |-> "nil", v |-> << >>]
Bytes(s) == [k |-> "bytes", v |-> s]
IsNil(b) == b.k = "nil"

Lit(s) == [k |-> "lit", v |-> s]
\* the text  url(<ref>)
UrlRef(ref) == [k |-> "url", v |-> ref]
\* the text  sourceMappingURL=<ref>
MapRef(ref) == [k |-> "map", v |-> ref]
\* the text  {{define "<name>"}}<body>{{end}}
Def(name, body) == [k |-> "def", v |-> <<name, body>>]

\* crypto/sha1 and encoding/hex: the digest of a byte sequence, and its hex
\* string (one atom standing for the 40 digits).
Sha1(s) == [k |-> "sha1", v |-> s]
HexEncodeToString(h) == << [k |-> "hex", v |-> h.v] >>

\* compress/gzip: the stream written for a byte sequence, and its inverse.
Gzip(s) == << [k |-> "gz", v |-> s] >>
Gunzip(s) == IF Len(s) = 1 /\ s[1].k = "gz" THEN s[1].v ELSE << >>

(* ------------------------------- paths -------------------------------- *)

\* A file extension is an atom of its own, so that filepath.Ext can find it.
ExtAtom(e) == [k |-> "ext", v |-> e]

\* path/filepath.Ext: the suffix beginning at the final dot of the final
\* element; empty if there is no dot.
Ext(path) ==
    IF Len(path) > 0 /\ path[Len(path)].k = "ext" THEN path[Len(path)].v ELSE ""

\* The constructor argument of NewAssets.
BaseURL == << Slash, Seg("a"), Slash >>

\* Virtual paths.
VSheet == << Slash, Seg("css"), Slash, Seg("s"), ExtAtom(".css") >>
VLogo  == << Slash, Seg("css"), Slash, Seg("logo"), ExtAtom(".png") >>
VEmpty == << Slash, Seg("e"), ExtAtom(".css") >>
VPageA == << Slash, Seg("a"), ExtAtom(".html") >>
VPageB == << Slash, Seg("b"), ExtAtom(".html") >>
VTwo == << Slash, Seg("css"), Slash, Seg("t"), ExtAtom(".css") >>
VCopy == << Slash, Seg("x"), ExtAtom(".bin") >>
VMissing == << Slash, Seg("m"), ExtAtom(".png") >>
VCycA == << Slash, Seg("css"), Slash, Seg("ca"), ExtAtom(".css") >>
VCycB == << Slash, Seg("css"), Slash, Seg("cb"), ExtAtom(".css") >>
VSelf == << Slash, Seg("css"), Slash, Seg("self"), ExtAtom(".css") >>

\* Source locations.
FSheet == << Seg("www"), Slash, Seg("s"), ExtAtom(".css") >>
FLogo  == << Seg("www"), Slash, Seg("img"), Slash, Seg("logo"), ExtAtom(".png") >>
FEmpty == << Seg("www"), Slash, Seg("e"), ExtAtom(".css") >>
FPageA == << Seg("www"), Slash, Seg("a"), ExtAtom(".html") >>
FPageB == << Seg("www"), Slash, Seg("b"), ExtAtom(".html") >>
FTwo == << Seg("www"), Slash, Seg("t"), ExtAtom(".css") >>
FCopy == << Seg("www"), Slash, Seg("x"), ExtAtom(".bin") >>
FMissing == << Seg("www"), Slash, Seg("m"), ExtAtom(".png") >>
FCycA == << Seg("www"), Slash, Seg("ca"), ExtAtom(".css") >>
FCycB == << Seg("www"), Slash, Seg("cb"), ExtAtom(".css") >>
FSelf == << Seg("www"), Slash, Seg("self"), ExtAtom(".css") >>

\* A blank inside a reference.
Blank == Seg(" ")

\* The file system, which the program only reads: a style sheet with a
\* relative reference to a sibling image, the image, a zero-length style
\* sheet, and two template sources that both define "header"; a style sheet
\* with three references (an absolute one, a relative one written with
\* blanks around it, and a source map comment), and a file without a known
\* extension holding the image's bytes; two style sheets that refer to each
\* other and one that refers to itself.  FMissing does not exist.
Disk ==
    (FSheet :> << Lit("bg:"), UrlRef(<< Seg("logo"), ExtAtom(".png") >>) >>)
 @@ (FTwo   :> << UrlRef(VCopy), Lit(";"),
                  UrlRef(<< Blank, Seg("logo"), ExtAtom(".png"), Blank >>),
                  MapRef(<< Seg("logo"), ExtAtom(".png") >>) >>)
 @@ (FCopy  :> << Lit("PNG") >>)
 @@ (FCycA  :> << UrlRef(<< Seg("cb"), ExtAtom(".css") >>) >>)
 @@ (FCycB  :> << UrlRef(<< Seg("ca"), ExtAtom(".css") >>) >>)
 @@ (FSelf  :> << Lit("x"), MapRef(<< Seg("self"), ExtAtom(".css") >>) >>)
 @@ (FLogo  :> << Lit("PNG") >>)
 @@ (FEmpty :> << >>)
 @@ (FPageA :> << Def("header", "A"), Lit("a") >>)
 @@ (FPageB :> << Def("header", "B"), Lit("b") >>)

Err(msg) == [k |-> "err", v |-> msg]
None == [k |-> "none", v |-> << >>]

\* io/ioutil.ReadFile: the bytes (a non-nil slice, also for an empty file)
\* or an error.
ReadFile(path) ==
    IF path \in DOMAIN Disk
    THEN Bytes(Disk[path])
    ELSE Err(<< Seg("open ") >> \o path \o << Seg(": no such file or directory") >>)

\* mime.TypeByExtension.
TypeByExtension(ext) ==
    CASE ext = ".css"  -> "text/css; charset=utf-8"
      [] ext = ".png"  -> "image/png"
      [] ext = ".html" -> "text/html; charset=utf-8"
      [] OTHER         -> ""

\* net/http.DetectContentType: none of the contents of Disk carries a
\* binary signature.
DetectContentType(data) == "text/plain; charset=utf-8"

\* Get, lines 148-152.
ContentTypeOf(path, data) ==
    IF TypeByExtension(Ext(path)) = ""
    THEN DetectContentType(data)
    ELSE TypeByExtension(Ext(path))

\* path/filepath.Dir: all but the last element, without the trailing
\* separator unless it is the root.
Dir(path) ==
    LET n == Len(path)
        cut == IF n > 0 /\ path[n].k = "ext" THEN n - 2 ELSE n - 1
        d == SubSeq(path, 1, cut)
    IN  IF Len(d) > 1 /\ d[Len(d)] = Slash THEN SubSeq(d, 1, Len(d) - 1)
        ELSE IF d = << >> THEN << Seg(".") >> ELSE d

\* path/filepath.Join of a directory and a path without "." or ".."
\* elements: the two joined by one separator.
Join(dir, target) ==
    IF dir[Len(dir)] = Slash THEN dir \o target ELSE dir \o << Slash >> \o target

\* strings.TrimSpace: the string without its leading and trailing blanks.
RECURSIVE TrimSpace(_)
TrimSpace(s) ==
    IF s # << >> /\ Head(s) = Blank THEN TrimSpace(Tail(s))
    ELSE IF s # << >> /\ s[Len(s)] = Blank THEN TrimSpace(SubSeq(s, 1, Len(s) - 1))
    ELSE s

\* Assets.getRooted.
getRooted(fromFile, targetFile) ==
    IF targetFile[1] = Slash THEN targetFile
    ELSE Join(Dir(fromFile), targetFile)

(* ------------------------------- state -------------------------------- *)

VARIABLES
    version,               \* Assets.version
    preprocessors,         \* Assets.preprocessors: extension -> chain
    entries,               \* Assets.entries: virtual path -> *File
    byChecksum,            \* Assets.byChecksum: HashString -> *File
    templateCache,         \* Assets.templateCache: cache key -> *Template
    templateCacheVersion,  \* Assets.templateCacheVersion
    templateFuncMap,       \* Assets.templateFuncMap: name -> function
    files,                 \* the File objects allocated so far; a *File is an index
    th,                    \* per goroutine: its call stack and its last result
    nCalls,                \* Get / GetUrl / Serve / GetTemplate calls begun
    nPreOps,               \* AddPreprocessor / ClearPreprocessors calls made
    nFuncOps,              \* SetTemplateFunc calls made
    nTemplates,            \* template.Template objects allocated by GetTemplate
    sets                   \* per File: how often line 186 has assigned its Content

vars == << version, preprocessors, entries, byChecksum, templateCache,
           templateCacheVersion, templateFuncMap, files, th, nCalls, nPreOps,
           nFuncOps, nTemplates, sets >>

\* The transforms a caller can register: the two built-in rewriters and a
\* caller's own transform, which appends a marker to the content.
Processors == {"css", "map", "stamp"}

\* A map read that yields the zero value for a missing key.
Lookup(m, key, zero) == IF key \in DOMAIN m THEN m[key] ELSE zero

\* A map write.
Store(m, key, val) == (key :> val) @@ m

\* &File{path: file}, lines 126-128.
NewFile(path) ==
    [path |-> path, Content |-> NilBytes, ContentGZipped |-> NilBytes,
     Hash |-> NilBytes, HashString |-> << >>, ContentType |-> ""]

\* NewAssets, lines 45-79.
Init ==
    /\ version = 0
    /\ preprocessors = (".css" :> << "css", "map" >>)
    /\ entries = << >>
    /\ byChecksum = << >>
    /\ templateCache = << >>
    /\ templateCacheVersion = 0
    /\ templateFuncMap = [n \in {"jscode", "asset", "assetinline"} |-> "builtin"]
    /\ files = << >>
    /\ th = [t \in Threads |-> [stack |-> << >>, res |-> None]]
    /\ nCalls = 0
    /\ nPreOps = 0
    /\ nFuncOps = 0
    /\ nTemplates = 0
    /\ sets = << >>

(* ------------------------ registration (locked) ----------------------- *)

\* AddFile counting a version only for a path that is new.
AddFileNewOnly(file, virtualPath) ==
    /\ files' = Append(files, NewFile(file))
    /\ sets' = Append(sets, 0)
    /\ entries' = Store(entries, virtualPath, Len(files) + 1)
    /\ version' = IF virtualPath \in DOMAIN entries THEN version ELSE version + 1
    /\ UNCHANGED << preprocessors, byChecksum, templateCache, templateCacheVersion,
                    templateFuncMap, th, nCalls, nPreOps, nFuncOps, nTemplates >>

\* AddFile taking the checksum of the entry it replaces out of byChecksum.
AddFileUnpublishes(file, virtualPath) ==
    /\ files' = Append(files, NewFile(file))
    /\ sets' = Append(sets, 0)
    /\ entries' = Store(entries, virtualPath, Len(files) + 1)
    /\ version' = version + 1
    /\ byChecksum' =
         [h \in { k \in DOMAIN byChecksum :
                    byChecksum[k] # Lookup(entries, virtualPath, 0) } |-> byChecksum[h]]
    /\ UNCHANGED << preprocessors, templateCache, templateCacheVersion,
                    templateFuncMap, th, nCalls, nPreOps, nFuncOps, nTemplates >>

\* Assets.AddFile.
AddFile(file, virtualPath) ==
    /\ files' = Append(files, NewFile(file))
    /\ sets' = Append(sets, 0)
    /\ entries' = Store(entries, virtualPath, Len(files) + 1)
    /\ version' = version + 1
    /\ UNCHANGED << preprocessors, byChecksum, templateCache, templateCacheVersion,
                    templateFuncMap, th, nCalls, nPreOps, nFuncOps, nTemplates >>

\* Assets.AddPreprocessor.
AddPreprocessor(extension, processor) ==
    /\ nPreOps' = nPreOps + 1
    /\ preprocessors' =
         Store(preprocessors, extension,
               Append(Lookup(preprocessors, extension, << >>), processor))
    /\ UNCHANGED << version, entries, byChecksum, templateCache, templateCacheVersion,
                    templateFuncMap, files, th, nCalls, nFuncOps, nTemplates, sets >>

\* Assets.ClearPreprocessors.
ClearPreprocessors(extension) ==
    /\ nPreOps' = nPreOps + 1
    /\ preprocessors' =
         [e \in DOMAIN preprocessors \ {extension} |-> preprocessors[e]]
    /\ UNCHANGED << version, entries, byChecksum, templateCache, templateCacheVersion,
                    templateFuncMap, files, th, nCalls, nFuncOps, nTemplates, sets >>

\* Assets.SetTemplateFunc.
SetTemplateFunc(name, templateFunc) ==
    /\ nFuncOps' = nFuncOps + 1
    /\ templateFuncMap' = Store(templateFuncMap, name, templateFunc)
    /\ UNCHANGED << version, preprocessors, entries, byChecksum, templateCache,
                    templateCacheVersion, files, th, nCalls, nPreOps, nTemplates, sets >>

(* --------------------------- call stacks ------------------------------ *)

\* The activation of Get(virtualPath); via tells whether GetUrl made the call.
\* content is the local fileContent, procs the local preprocessors slice, pi
\* the processor being applied; ti, out and rerr are replaceProcessor's
\* position in the content, the output of ReplaceAllFunc so far and replaceErr.
GetFrame(virtualPath, via) ==
    [k |-> "Get", via |-> via, vp |-> virtualPath, pc |-> "lookup", file |-> 0,
     content |-> NilBytes, procs |-> << >>, pi |-> 1, ti |-> 1, out |-> << >>,
     rerr |-> None]

Idle(t) == th[t].stack = << >>
Top(t) == th[t].stack[Len(th[t].stack)]
At(t, kind, pc) == th[t].stack # << >> /\ Top(t).k = kind /\ Top(t).pc = pc
Pop(stack) == SubSeq(stack, 1, Len(stack) - 1)
ReplaceTop(stack, fr) == [stack EXCEPT ![Len(stack)] = fr]

\* Idle goroutines are interchangeable: a new call runs on the first of them
\* (its res keeps the result of its last call until then).
Free(t) == Idle(t) /\ \A u \in Threads : u < t => ~Idle(u)

\* The kind of match each built-in rewriter replaces (cssUrlRegex,
\* sourceMapRegex).
MatchKind(processor) == IF processor = "css" THEN "url" ELSE "map"

\* A caller's transform: appends a marker (the result is never nil).
Stamp(content) == Bytes(content.v \o << Lit("!") >>)

\* What regexp.ReplaceAllFunc returns: the output, nil when it is empty.
ReplaceAllResult(out) == IF out = << >> THEN NilBytes ELSE Bytes(out)

\* A chain that ends at once, whatever the content refers to.
ScanSkipsChain(fr) ==
    [stop |-> "done", fr |-> [fr EXCEPT !.pc = "gzip"], target |-> << >>, err |-> None]

\* The preprocessing loop of Get (lines 158-167) with replaceProcessor
\* (lines 322-365) inside it, run from the frame's position up to its next
\* call of GetUrl (stop = "call", target the rooted path), to the end of the
\* chain (stop = "done") or to a processor's error (stop = "err").
RECURSIVE Scan(_)
Scan(frame) ==
    LET Rest(fr) ==
        IF fr.pi > Len(fr.procs)
        THEN [stop |-> "done", fr |-> [fr EXCEPT !.pc = "gzip"], target |-> << >>, err |-> None]
        ELSE IF fr.procs[fr.pi] = "stamp"
        THEN Scan([fr EXCEPT !.content = Stamp(fr.content), !.pi = @ + 1])
        ELSE IF fr.ti > Len(fr.content.v)
        THEN IF fr.rerr # None
             THEN [stop |-> "err", fr |-> fr, target |-> << >>, err |-> fr.rerr]
             ELSE Scan([fr EXCEPT !.content = ReplaceAllResult(fr.out), !.pi = @ + 1,
                                  !.ti = 1, !.out = << >>])
        ELSE IF fr.content.v[fr.ti].k = MatchKind(fr.procs[fr.pi])
        THEN [stop |-> "call", fr |-> [fr EXCEPT !.pc = "call"],
              target |-> getRooted(fr.vp, TrimSpace(fr.content.v[fr.ti].v)), err |-> None]
        ELSE Scan([fr EXCEPT !.out = Append(@, fr.content.v[fr.ti]), !.ti = @ + 1])
    IN  CHOOSE r \in { Rest(fr) : fr \in { frame } } : TRUE

\* GetUrl returning the checksum alone, without baseURL before it.
UrlOfChecksum(val, fl) ==
    IF val.k = "err" THEN val
    ELSE [k |-> "str", v |-> fl[val.v].HashString]

\* GetUrl, lines 193-198, once its Get has returned val.
UrlOf(val, fl) ==
    IF val.k = "err" THEN val
    ELSE [k |-> "str", v |-> BaseURL \o fl[val.v].HashString]

\* The replacement function returning its match in every case: the
\* reference is resolved and never rewritten.
ReplacedKeepsMatch(fr, val) ==
    [fr EXCEPT !.out = Append(@, fr.content.v[fr.ti]), !.ti = @ + 1]

\* The replacement function keeping its match on an error without noting
\* the error in replaceErr.
ReplacedForgetsError(fr, val) ==
    LET match == fr.content.v[fr.ti]
    IN  IF val.k = "err"
        THEN [fr EXCEPT !.out = Append(@, match), !.ti = @ + 1]
        ELSE [fr EXCEPT !.out = Append(@, [k |-> match.k, v |-> val.v]), !.ti = @ + 1]

\* The replacement function of replaceProcessor (lines 352-357) once its
\* GetUrl has returned val: the match rewritten, or kept and the error noted.
Replaced(fr, val) ==
    LET match == fr.content.v[fr.ti]
    IN  IF val.k = "err"
        THEN [fr EXCEPT !.rerr = val, !.out = Append(@, match), !.ti = @ + 1]
        ELSE [fr EXCEPT !.out = Append(@, [k |-> match.k, v |-> val.v]), !.ti = @ + 1]

\* The key GetTemplate caches a path list under: strings.Join(list, "<").
RECURSIVE CacheKey(_)
CacheKey(list) ==
    IF list = << >> THEN << >>
    ELSE IF Len(list) = 1 THEN list[1]
    ELSE list[1] \o << Seg("<") >> \o CacheKey(Tail(list))

\* html/template Parse of a source named path: the template named path, made
\* of what stands outside every definition, and one template per definition.
ParseTemplates(path, content) ==
    LET text == content.v
        defs == { i \in 1..Len(text) : text[i].k = "def" }
        body == SelectSeq(text, LAMBDA a : a.k # "def")
        NameOf(i) == << Seg(text[i].v[1]) >>
    IN  (path :> [src |-> path, tree |-> body])
        @@ [n \in { NameOf(i) : i \in defs } |->
              [src |-> path,
               tree |-> << Lit(text[CHOOSE i \in defs : NameOf(i) = n].v[2]) >>]]

\* A merge in which the template parsed last replaces one of the same name.
MergeLastWins(defs, parsed) ==
    [n \in DOMAIN defs \cup DOMAIN parsed |->
        IF n \in DOMAIN parsed THEN parsed[n] ELSE defs[n]]

\* GetTemplate, lines 281-286: a name already in the merged namespace stays.
Merge(defs, parsed) ==
    [n \in DOMAIN defs \cup DOMAIN parsed |->
        IF n \in DOMAIN defs THEN defs[n] ELSE parsed[n]]

\* The activation of GetTemplate(templatePathArr); v is the value read from
\* f.version, i the loop's position and tmpl the template under construction
\* (id tells *Template objects apart; its v notes the value of f.version its
\* GetTemplate call had read).  prev is history: what the goroutine's previous
\* call returned, when that was a template.
TmplFrame(list) ==
    [k |-> "Tmpl", list |-> list, pc |-> "ver", v |-> 0, i |-> 1,
     tmpl |-> [id |-> 0, v |-> 0, funcs |-> << >>, defs |-> << >>],
     prev |-> None]

\* The history a GetTemplate call keeps of the result res before it: the
\* list compiled, the *Template returned and f.version at that return.
Earlier(res) ==
    IF res.k = "tmpl"
    THEN [k |-> "tmpl", list |-> res.list, id |-> res.v.id, ver |-> res.ver]
    ELSE None

\* The activation of Serve(url, w, r); ctype is the Content-Type header once
\* it is set.
ServeFrame(url, r) ==
    [k |-> "Serve", url |-> url, r |-> r, pc |-> "lookup", file |-> 0, ctype |-> ""]

\* The activation of SetTemplateFunc(name, templateFunc) while it holds the
\* write lock (line 82) and assigns to the map (line 85).
SetFuncFrame(name, templateFunc) ==
    [k |-> "SetFunc", pc |-> "write", name |-> name, fn |-> templateFunc]

\* The activation of one of the template functions "asset" and "assetinline"
\* (lines 57-72) while its call of GetUrl or Get runs.
FuncFrame(fn, virtualPath) ==
    [k |-> "Func", pc |-> "wait", fn |-> fn, arg |-> virtualPath]

\* What a template function returns: fn and arg are history, v the value.
FuncResult(fr, v) == [k |-> "func", fn |-> fr.fn, arg |-> fr.arg, v |-> v]

\* Lines 61 and 67-71, once GetUrl or Get has returned ret.
FuncReturn(fr, ret, fl) ==
    FuncResult(fr, IF ret.k = "file" THEN [k |-> "str", v |-> fl[ret.v].Content.v]
                                     ELSE ret)

RECURSIVE NextPath(_, _)
NextPath(list, i) ==
    IF i > Len(list) \/ list[i] # << >> THEN i ELSE NextPath(list, i + 1)

\* GetTemplate's loop (lines 269-271) from position fr.i to its next call of
\* Get, or to the end of the list: the stack that results.
TmplLoop(fr) ==
    LET j == NextPath(fr.list, fr.i)
    IN  IF j > Len(fr.list)
        THEN << [fr EXCEPT !.i = j, !.pc = "store"] >>
        ELSE << [fr EXCEPT !.i = j, !.pc = "wait"], GetFrame(fr.list[j], "Get") >>

\* GetTemplate, lines 276-286, once Get(path) has returned file: parse
\* string(file.Content) and merge its templates.
Parsed(fr, file, fl) ==
    [fr EXCEPT !.tmpl.defs = Merge(@, ParseTemplates(fr.list[fr.i], fl[file].Content)),
               !.i = @ + 1]

\* The return of a Get made through via with value val, to the activation
\* under it on the stack: the goroutine's stack and result afterwards.  fl is
\* the heap the caller reads on the way (GetUrl reads file.HashString,
\* GetTemplate reads file.Content).
RECURSIVE Resume(_, _, _, _)
Resume(stack, via, val, fl) ==
    LET ret == IF via = "GetUrl" THEN UrlOf(val, fl) ELSE val
    IN  IF stack = << >> THEN [stack |-> << >>, res |-> ret]
        ELSE LET caller == stack[Len(stack)]
             IN  IF caller.k = "Get"
                 THEN LET sc == Scan(Replaced(caller, ret))
                      IN  CASE sc.stop = "call" ->
                                 [stack |-> Append(ReplaceTop(stack, sc.fr),
                                                   GetFrame(sc.target, "GetUrl")),
                                  res |-> None]
                            [] sc.stop = "done" ->
                                 [stack |-> ReplaceTop(stack, sc.fr), res |-> None]
                            [] OTHER ->
                                 Resume(Pop(stack), caller.via, sc.err, fl)
                 ELSE IF caller.k = "Func"
                      THEN [stack |-> << >>, res |-> FuncReturn(caller, ret, fl)]
                 ELSE IF ret.k = "err"
                      THEN [stack |-> << >>, res |-> ret]
                      ELSE [stack |-> TmplLoop(Parsed(caller, ret.v, fl)), res |-> None]

(* -------------------------------- Get --------------------------------- *)

Returned(t, fr, val) == [th EXCEPT ![t] = Resume(Pop(th[t].stack), fr.via, val, files)]
Moved(t, fr) == [th EXCEPT ![t].stack = ReplaceTop(@, fr)]

\* Line 140 without its test: every call runs the pipeline.
UnmaterializedAlways(file) == TRUE

\* Line 140: the test that decides whether this call runs the pipeline.
Unmaterialized(file) == IsNil(file.Content)

\* Lines 133-138: read entries[virtualPath] under the read lock.
GetLookup(t) ==
    /\ At(t, "Get", "lookup")
    /\ LET fr == Top(t)
           file == Lookup(entries, fr.vp, 0)
       IN  th' = IF file = 0
                 THEN Returned(t, fr, Err(<< Seg("File Not Found: ") >> \o fr.vp))
                 ELSE Moved(t, [fr EXCEPT !.file = file, !.pc = "check"])
    /\ UNCHANGED << version, preprocessors, entries, byChecksum, templateCache,
                    templateCacheVersion, templateFuncMap, files, nCalls, nPreOps,
                    nFuncOps, nTemplates, sets >>

\* Line 140: read file.Content.
GetCheck(t) ==
    /\ At(t, "Get", "check")
    /\ LET fr == Top(t)
       IN  th' = IF Unmaterialized(files[fr.file])
                 THEN Moved(t, [fr EXCEPT !.pc = "load"])
                 ELSE Moved(t, [fr EXCEPT !.pc = "ret"])
    /\ UNCHANGED << version, preprocessors, entries, byChecksum, templateCache,
                    templateCacheVersion, templateFuncMap, files, nCalls, nPreOps,
                    nFuncOps, nTemplates, sets >>

\* Lines 142-152: read the source and write file.ContentType.
GetLoad(t) ==
    /\ At(t, "Get", "load")
    /\ LET fr == Top(t)
           path == files[fr.file].path
           data == ReadFile(path)
       IN  IF data.k = "err"
           THEN /\ th' = Returned(t, fr, data)
                /\ files' = files
           ELSE /\ th' = Moved(t, [fr EXCEPT !.content = data, !.pc = "chain"])
                /\ files' = [files EXCEPT ![fr.file].ContentType =
                                              ContentTypeOf(path, data.v)]
    /\ UNCHANGED << version, preprocessors, entries, byChecksum, templateCache,
                    templateCacheVersion, templateFuncMap, nCalls, nPreOps,
                    nFuncOps, nTemplates, sets >>

\* Lines 155-167: read preprocessors[extension] under the read lock and run
\* the chain up to its first call of GetUrl.
GetChain(t) ==
    /\ At(t, "Get", "chain")
    /\ LET fr == Top(t)
           chain == Lookup(preprocessors, Ext(files[fr.file].path), << >>)
           sc == Scan([fr EXCEPT !.procs = chain, !.pi = 1, !.ti = 1, !.out = << >>])
       IN  th' = CASE sc.stop = "call" ->
                        [th EXCEPT ![t].stack =
                            Append(ReplaceTop(@, sc.fr), GetFrame(sc.target, "GetUrl"))]
                   [] sc.stop = "done" -> Moved(t, sc.fr)
                   [] OTHER -> Returned(t, fr, sc.err)
    /\ UNCHANGED << version, preprocessors, entries, byChecksum, templateCache,
                    templateCacheVersion, templateFuncMap, files, nCalls, nPreOps,
                    nFuncOps, nTemplates, sets >>

\* Lines 170-174: write file.ContentGZipped.
GetGzip(t) ==
    /\ At(t, "Get", "gzip")
    /\ LET fr == Top(t)
       IN  /\ files' = [files EXCEPT ![fr.file].ContentGZipped =
                                         Bytes(Gzip(fr.content.v))]
           /\ th' = Moved(t, [fr EXCEPT !.pc = "sha1"])
    /\ UNCHANGED << version, preprocessors, entries, byChecksum, templateCache,
                    templateCacheVersion, templateFuncMap, nCalls, nPreOps,
                    nFuncOps, nTemplates, sets >>

\* Lines 177-180: write file.Hash and file.HashString.
GetSha1(t) ==
    /\ At(t, "Get", "sha1")
    /\ LET fr == Top(t)
           h == Sha1(fr.content.v)
       IN  /\ files' = [files EXCEPT ![fr.file].Hash = Bytes(<< h >>),
                                     ![fr.file].HashString = HexEncodeToString(h)]
           /\ th' = Moved(t, [fr EXCEPT !.pc = "publish"])
    /\ UNCHANGED << version, preprocessors, entries, byChecksum, templateCache,
                    templateCacheVersion, templateFuncMap, nCalls, nPreOps,
                    nFuncOps, nTemplates, sets >>

\* A publication that leaves a checksum that is already a key with the File
\* it has.
GetPublishKeepsFirst(t) ==
    /\ At(t, "Get", "publish")
    /\ LET fr == Top(t)
           key == files[fr.file].HashString
       IN  /\ byChecksum' = IF key \in DOMAIN byChecksum THEN byChecksum
                             ELSE Store(byChecksum, key, fr.file)
           /\ th' = Moved(t, [fr EXCEPT !.pc = "setcontent"])
    /\ UNCHANGED << version, preprocessors, entries, templateCache,
                    templateCacheVersion, templateFuncMap, files, nCalls, nPreOps,
                    nFuncOps, nTemplates, sets >>

\* Lines 181-183: byChecksum[file.HashString] = file under the write lock.
GetPublish(t) ==
    /\ At(t, "Get", "publish")
    /\ LET fr == Top(t)
       IN  /\ byChecksum' = Store(byChecksum, files[fr.file].HashString, fr.file)
           /\ th' = Moved(t, [fr EXCEPT !.pc = "setcontent"])
    /\ UNCHANGED << version, preprocessors, entries, templateCache,
                    templateCacheVersion, templateFuncMap, files, nCalls, nPreOps,
                    nFuncOps, nTemplates, sets >>

\* Line 186: file.Content = fileContent.
GetSetContent(t) ==
    /\ At(t, "Get", "setcontent")
    /\ LET fr == Top(t)
       IN  /\ files' = [files EXCEPT ![fr.file].Content = fr.content]
           /\ sets' = [sets EXCEPT ![fr.file] = @ + 1]
           /\ th' = Moved(t, [fr EXCEPT !.pc = "ret"])
    /\ UNCHANGED << version, preprocessors, entries, byChecksum, templateCache,
                    templateCacheVersion, templateFuncMap, nCalls, nPreOps,
                    nFuncOps, nTemplates >>

\* Line 189: return file; the caller goes on to its next access (GetUrl reads
\* file.HashString, GetTemplate reads file.Content).
GetReturn(t) ==
    /\ At(t, "Get", "ret")
    /\ th' = Returned(t, Top(t), [k |-> "file", v |-> Top(t).file])
    /\ UNCHANGED << version, preprocessors, entries, byChecksum, templateCache,
                    templateCacheVersion, templateFuncMap, files, nCalls, nPreOps,
                    nFuncOps, nTemplates, sets >>

\* A goroutine calls Get(virtualPath) or GetUrl(virtualPath): lines 133-138
\* of the outermost Get.
BeginGet(t, virtualPath, via) ==
    /\ Free(t)
    /\ nCalls' = nCalls + 1
    /\ LET file == Lookup(entries, virtualPath, 0)
       IN  th' = IF file = 0
                 THEN [th EXCEPT ![t] =
                         Resume(<< >>, via,
                                Err(<< Seg("File Not Found: ") >> \o virtualPath), files)]
                 ELSE [th EXCEPT ![t] =
                         [stack |-> << [GetFrame(virtualPath, via) EXCEPT
                                          !.file = file, !.pc = "check"] >>,
                          res |-> None]]
    /\ UNCHANGED << version, preprocessors, entries, byChecksum, templateCache,
                    templateCacheVersion, templateFuncMap, files, nPreOps,
                    nFuncOps, nTemplates, sets >>

(* ------------------------------- Serve -------------------------------- *)

\* A request: r == nil, or its Accept-Encoding header ("" when absent).
NoRequest == [nil |-> TRUE, accept |-> << >>]
Request(accept) == [nil |-> FALSE, accept |-> accept]
Requests == { NoRequest, Request(<< >>),
              Request(<< Seg("deflate"), Seg(", "), Seg("gzip") >>) }

\* Line 220: r != nil && strings.Contains(r.Header.Get("Accept-Encoding"), "gzip").
AcceptsGzip(r) == ~r.nil /\ \E i \in 1..Len(r.accept) : r.accept[i] = Seg("gzip")

\* httpError(w, 404, "404 - File not found"), lines 297-301.
NotFound ==
    [status |-> 404, ctype |-> "text/plain; charset=utf-8", enc |-> "",
     body |-> << Seg("404 - File not found"), Seg("\n") >>]

\* Line 207: url[len(f.baseURL):].
ChecksumOf(url) == SubSeq(url, Len(BaseURL) + 1, Len(url))

\* Line 202: the only test made of the URL's prefix.
TooShort(url) == Len(url) < Len(BaseURL)

Response(t, fr, resp) ==
    [th EXCEPT ![t] = [stack |-> << >>,
                       res |-> [k |-> "http", v |-> resp, url |-> fr.url, r |-> fr.r]]]

\* A goroutine calls Serve(url, w, r).  Lines 202-215: the length test and
\* the read of byChecksum under the read lock.
ServeLookup(t, url, r) ==
    /\ Free(t)
    /\ nCalls' = nCalls + 1
    /\ LET fr == ServeFrame(url, r)
           file == IF TooShort(url) THEN 0 ELSE Lookup(byChecksum, ChecksumOf(url), 0)
       IN  th' = IF file = 0
                 THEN Response(t, fr, NotFound)
                 ELSE [th EXCEPT ![t] =
                         [stack |-> << [fr EXCEPT !.file = file, !.pc = "header"] >>,
                          res |-> None]]
    /\ UNCHANGED << version, preprocessors, entries, byChecksum, templateCache,
                    templateCacheVersion, templateFuncMap, files, nPreOps,
                    nFuncOps, nTemplates, sets >>

\* Line 217: read file.ContentType.
ServeHeader(t) ==
    /\ At(t, "Serve", "header")
    /\ LET fr == Top(t)
       IN  th' = Moved(t, [fr EXCEPT !.ctype = files[fr.file].ContentType,
                                     !.pc = "body"])
    /\ UNCHANGED << version, preprocessors, entries, byChecksum, templateCache,
                    templateCacheVersion, templateFuncMap, files, nCalls, nPreOps,
                    nFuncOps, nTemplates, sets >>

\* Lines 220-225: read file.ContentGZipped or file.Content and write it.
ServeBody(t) ==
    /\ At(t, "Serve", "body")
    /\ LET fr == Top(t)
           file == files[fr.file]
       IN  th' = IF AcceptsGzip(fr.r)
                 THEN Response(t, fr, [status |-> 200, ctype |-> fr.ctype,
                                       enc |-> "gzip", body |-> file.ContentGZipped.v])
                 ELSE Response(t, fr, [status |-> 200, ctype |-> fr.ctype,
                                       enc |-> "", body |-> file.Content.v])
    /\ UNCHANGED << version, preprocessors, entries, byChecksum, templateCache,
                    templateCacheVersion, templateFuncMap, files, nCalls, nPreOps,
                    nFuncOps, nTemplates, sets >>

(* ---------------------------- GetTemplate ----------------------------- *)

\* A goroutine calls GetTemplate(templatePathArr).  Line 250, first operand:
\* read f.version (no lock held).
TmplVersion(t, list) ==
    /\ Free(t)
    /\ nCalls' = nCalls + 1
    /\ th' = [th EXCEPT ![t] =
                [stack |-> << [TmplFrame(list) EXCEPT !.v = version, !.pc = "stamp",
                                                      !.prev = Earlier(th[t].res)] >>,
                 res |-> None]]
    /\ UNCHANGED << version, preprocessors, entries, byChecksum, templateCache,
                    templateCacheVersion, templateFuncMap, files, nPreOps,
                    nFuncOps, nTemplates, sets >>

\* The comparison of line 250 taken as equal whatever the two versions are.
TmplCompareEqual(t) ==
    /\ At(t, "Tmpl", "stamp")
    /\ th' = Moved(t, [Top(t) EXCEPT !.pc = "cache"])
    /\ UNCHANGED << version, preprocessors, entries, byChecksum, templateCache,
                    templateCacheVersion, templateFuncMap, files, nCalls, nPreOps,
                    nFuncOps, nTemplates, sets >>

\* Line 250, second operand: read f.templateCacheVersion and compare.
TmplCompare(t) ==
    /\ At(t, "Tmpl", "stamp")
    /\ th' = IF Top(t).v # templateCacheVersion
             THEN Moved(t, [Top(t) EXCEPT !.pc = "reset"])
             ELSE Moved(t, [Top(t) EXCEPT !.pc = "cache"])
    /\ UNCHANGED << version, preprocessors, entries, byChecksum, templateCache,
                    templateCacheVersion, templateFuncMap, files, nCalls, nPreOps,
                    nFuncOps, nTemplates, sets >>

\* Lines 251-254: stamp and empty the cache under the write lock.
TmplReset(t) ==
    /\ At(t, "Tmpl", "reset")
    /\ templateCacheVersion' = version
    /\ templateCache' = << >>
    /\ th' = Moved(t, [Top(t) EXCEPT !.pc = "cache"])
    /\ UNCHANGED << version, preprocessors, entries, byChecksum, templateFuncMap,
                    files, nCalls, nPreOps, nFuncOps, nTemplates, sets >>

\* Lines 258-264: read templateCache[cacheKey] under the read lock.
TmplCache(t) ==
    /\ At(t, "Tmpl", "cache")
    /\ LET fr == Top(t)
           key == CacheKey(fr.list)
       IN  th' = IF key \in DOMAIN templateCache
                 THEN [th EXCEPT ![t] = [stack |-> << >>,
                                         res |-> [k |-> "tmpl", v |-> templateCache[key],
                                                  list |-> fr.list, ver |-> version,
                                                  prev |-> fr.prev]]]
                 ELSE Moved(t, [fr EXCEPT !.pc = "new"])
    /\ UNCHANGED << version, preprocessors, entries, byChecksum, templateCache,
                    templateCacheVersion, templateFuncMap, files, nCalls, nPreOps,
                    nFuncOps, nTemplates, sets >>

\* A goroutine is inside SetTemplateFunc, holding the write lock.
Writing(t) == At(t, "SetFunc", "write")
LockHeld == \E t \in Threads : Writing(t)

\* What an unlocked read of f.templateFuncMap can find: the table, or, while
\* a goroutine is assigning to it, the table with that assignment made.
FuncTables ==
    { templateFuncMap }
    \cup { Store(templateFuncMap, Top(t).name, Top(t).fn) :
              t \in { u \in Threads : Writing(u) } }

\* Line 267: a new template bound to the function table as this read of it,
\* made without the lock, finds it; then the loop, up to its first call of
\* Get.
TmplNew(t) ==
    /\ At(t, "Tmpl", "new")
    /\ nTemplates' = nTemplates + 1
    /\ \E seen \in FuncTables :
          th' = [th EXCEPT ![t].stack =
                    TmplLoop([Top(t) EXCEPT !.tmpl = [id |-> nTemplates + 1,
                                                      v |-> Top(t).v,
                                                      funcs |-> seen,
                                                      defs |-> << >>]])]
    /\ UNCHANGED << version, preprocessors, entries, byChecksum, templateCache,
                    templateCacheVersion, templateFuncMap, files, nCalls, nPreOps,
                    nFuncOps, sets >>

\* Lines 290-294: templateCache[cacheKey] = tmpl under the write lock; return.
TmplStore(t) ==
    /\ At(t, "Tmpl", "store")
    /\ LET fr == Top(t)
       IN  /\ templateCache' = Store(templateCache, CacheKey(fr.list), fr.tmpl)
           /\ th' = [th EXCEPT ![t] = [stack |-> << >>,
                                       res |-> [k |-> "tmpl", v |-> fr.tmpl,
                                                list |-> fr.list, ver |-> version,
                                                prev |-> fr.prev]]]
    /\ UNCHANGED << version, preprocessors, entries, byChecksum, templateCacheVersion,
                    templateFuncMap, files, nCalls, nPreOps, nFuncOps, nTemplates,
                    sets >>

(* ------------------ template functions (lines 55-73) ------------------ *)

\* virtualPath[0] of lines 58 and 64: indexing the empty string panics.
IndexPanic == [k |-> "panic", v |-> << Seg("index out of range") >>]
ArgumentError == Err(<< Seg("path argument must start with '/'") >>)

\* A template calls fn, "asset" or "assetinline", with virtualPath: the test
\* of the first byte, then GetUrl (asset) or Get (assetinline).
TemplateFunc(t, fn, virtualPath) ==
    /\ Free(t)
    /\ nCalls' = nCalls + 1
    /\ LET fr == FuncFrame(fn, virtualPath)
       IN  th' = [th EXCEPT ![t] =
                    IF virtualPath = << >>
                    THEN [stack |-> << >>, res |-> FuncResult(fr, IndexPanic)]
                    ELSE IF virtualPath[1] # Slash
                    THEN [stack |-> << >>, res |-> FuncResult(fr, ArgumentError)]
                    ELSE [stack |-> << fr, GetFrame(virtualPath,
                                                    IF fn = "asset" THEN "GetUrl"
                                                                    ELSE "Get") >>,
                          res |-> None]]
    /\ UNCHANGED << version, preprocessors, entries, byChecksum, templateCache,
                    templateCacheVersion, templateFuncMap, files, nPreOps,
                    nFuncOps, nTemplates, sets >>

(* -------------------- SetTemplateFunc, step by step ------------------- *)

\* A goroutine calls SetTemplateFunc(name, templateFunc) and takes the write
\* lock (line 82).
SetFuncLock(t, name, templateFunc) ==
    /\ Free(t)
    /\ ~LockHeld
    /\ nFuncOps' = nFuncOps + 1
    /\ th' = [th EXCEPT ![t] = [stack |-> << SetFuncFrame(name, templateFunc) >>,
                                res |-> None]]
    /\ UNCHANGED << version, preprocessors, entries, byChecksum, templateCache,
                    templateCacheVersion, templateFuncMap, files, nCalls, nPreOps,
                    nTemplates, sets >>

\* Line 85 completes, the deferred Unlock runs and the call returns.
SetFuncWrite(t) ==
    /\ Writing(t)
    /\ templateFuncMap' = Store(templateFuncMap, Top(t).name, Top(t).fn)
    /\ th' = [th EXCEPT ![t] = [stack |-> << >>, res |-> [k |-> "void", v |-> << >>]]]
    /\ UNCHANGED << version, preprocessors, entries, byChecksum, templateCache,
                    templateCacheVersion, files, nCalls, nPreOps, nFuncOps,
                    nTemplates, sets >>

(* --------------------------- specifications --------------------------- *)

Extensions == { ".css", ".png" }

\* Request URLs: each published checksum under baseURL and under another
\* prefix of the same length, a checksum nothing was published under, and a
\* URL shorter than baseURL.
OtherPrefix == << Slash, Seg("b"), Slash >>
Published == { BaseURL \o h : h \in DOMAIN byChecksum }
ServeURLs ==
    Published
    \cup { OtherPrefix \o h : h \in DOMAIN byChecksum }
    \cup { BaseURL \o HexEncodeToString(Sha1(<< Lit("?") >>)), << Slash >> }

\* One access of a goroutine that is inside a call.
Step(t) ==
    \/ GetLookup(t)
    \/ GetCheck(t)
    \/ GetLoad(t)
    \/ GetChain(t)
    \/ GetGzip(t)
    \/ GetSha1(t)
    \/ GetPublish(t)
    \/ GetSetContent(t)
    \/ GetReturn(t)
    \/ ServeHeader(t)
    \/ ServeBody(t)

\* Two goroutines resolve and serve a style sheet and the image it refers to
\* while files and transforms are registered under them.
Next ==
    \/ /\ version < MaxVersion
       /\ \E r \in { << FSheet, VSheet >>, << FLogo, VLogo >> } : AddFile(r[1], r[2])
    \/ /\ nPreOps < MaxPreOps
       /\ \E e \in Extensions : AddPreprocessor(e, "stamp")
    \/ /\ nPreOps < MaxPreOps
       /\ \E e \in Extensions : ClearPreprocessors(e)
    \/ /\ nCalls < MaxCalls
       /\ \E t \in Threads, vp \in { VSheet, VLogo }, via \in {"Get", "GetUrl"} :
             BeginGet(t, vp, via)
    \/ /\ nCalls < MaxCalls
       /\ \E t \in Threads, url \in Published,
             r \in { Request(<< >>), Request(<< Seg("gzip") >>) } :
             ServeLookup(t, url, r)
    \/ \E t \in Threads : Step(t)

Spec == Init /\ [][Next]_vars

\* One access of a goroutine that is inside GetTemplate.
TmplStep(t) ==
    \/ TmplCompare(t)
    \/ TmplReset(t)
    \/ TmplCache(t)
    \/ TmplNew(t)
    \/ TmplStore(t)

\* A sequential run over the style sheet, the image and the empty style
\* sheet: one goroutine makes every call, and registers between its calls.
SeqMaxVersion == 2
SeqMaxCalls == 2

SeqNext ==
    \/ /\ version < SeqMaxVersion /\ Idle(1)
       /\ \E r \in { << FSheet, VSheet >>, << FLogo, VLogo >>, << FEmpty, VEmpty >> } :
             AddFile(r[1], r[2])
    \/ /\ nPreOps < MaxPreOps /\ Idle(1)
       /\ \E e \in Extensions, p \in Processors : AddPreprocessor(e, p)
    \/ /\ nPreOps < MaxPreOps /\ Idle(1)
       /\ \E e \in Extensions : ClearPreprocessors(e)
    \/ /\ nCalls < SeqMaxCalls
       /\ \E vp \in { VSheet, VLogo, VEmpty }, via \in {"Get", "GetUrl"} :
             BeginGet(1, vp, via)
    \/ /\ nCalls < SeqMaxCalls
       /\ \E url \in ServeURLs, r \in Requests : ServeLookup(1, url, r)
    \/ Step(1)

SeqSpec == Init /\ [][SeqNext]_vars

\* A sequential run over the two template sources, with every operation of
\* the registry in it.
TmplMaxVersion == 3
TmplMaxCalls == 3
TemplateLists ==
    { << VPageA >>, << VPageA, VPageB >>, << VPageB, VPageA >>, << << >>, VPageB >> }

TmplNext ==
    \/ /\ version < TmplMaxVersion /\ Idle(1)
       /\ \E r \in { << FPageA, VPageA >>, << FPageB, VPageB >> } : AddFile(r[1], r[2])
    \/ /\ nPreOps < MaxPreOps /\ Idle(1)
       /\ AddPreprocessor(".html", "stamp")
    \/ /\ nPreOps < MaxPreOps /\ Idle(1)
       /\ ClearPreprocessors(".css")
    \/ /\ nFuncOps < MaxFuncOps /\ Idle(1)
       /\ SetTemplateFunc("title", "user")
    \/ /\ nCalls < TmplMaxCalls
       /\ \E via \in {"Get", "GetUrl"} : BeginGet(1, VPageA, via)
    \/ /\ nCalls < TmplMaxCalls
       /\ \E url \in Published : ServeLookup(1, url, NoRequest)
    \/ /\ nCalls < TmplMaxCalls
       /\ \E list \in TemplateLists : TmplVersion(1, list)
    \/ Step(1)
    \/ TmplStep(1)

TmplSpec == Init /\ [][TmplNext]_vars

\* A sequential run over the image, a copy of its bytes under another
\* extension, the style sheet with three references and an entry whose
\* source does not exist.
RefMaxVersion == 3
RefMaxCalls == 3
RefFiles ==
    { << FLogo, VLogo >>, << FCopy, VCopy >>, << FTwo, VTwo >>, << FMissing, VMissing >> }

\* Arguments of the template functions: the empty string, a relative path,
\* a registered path and a path whose source does not exist.
FuncArgs == { << >>, << Seg("logo"), ExtAtom(".png") >>, VLogo, VMissing }

RefNext ==
    \/ /\ version < RefMaxVersion /\ Idle(1)
       /\ \E r \in RefFiles : AddFile(r[1], r[2])
    \/ /\ nCalls < RefMaxCalls
       /\ \E r \in RefFiles, via \in {"Get", "GetUrl"} : BeginGet(1, r[2], via)
    \/ /\ nCalls < RefMaxCalls
       /\ \E url \in Published : ServeLookup(1, url, Request(<< >>))
    \/ /\ nCalls < RefMaxCalls
       /\ \E fn \in {"asset", "assetinline"}, arg \in FuncArgs :
             TemplateFunc(1, fn, arg)
    \/ Step(1)

RefSpec == Init /\ [][RefNext]_vars

\* Two goroutines compile the list of one page while the page is
\* registered again, from either source, and a template function is set.
\* While a goroutine holds the write lock inside SetTemplateFunc, the others
\* take only the steps that need no lock.
RaceMaxVersion == 2
RaceMaxCalls == 3

NeedsLock(t) ==
    \/ At(t, "Get", "lookup") \/ At(t, "Get", "chain") \/ At(t, "Get", "publish")
    \/ At(t, "Tmpl", "reset") \/ At(t, "Tmpl", "cache") \/ At(t, "Tmpl", "store")

RaceStep(t) ==
    \/ GetLookup(t)
    \/ GetCheck(t)
    \/ GetLoad(t)
    \/ GetChain(t)
    \/ GetGzip(t)
    \/ GetSha1(t)
    \/ GetPublish(t)
    \/ GetSetContent(t)
    \/ GetReturn(t)

RaceNext ==
    \/ /\ version < RaceMaxVersion /\ ~LockHeld
       /\ \E file \in { FPageA, FPageB } : AddFile(file, VPageA)
    \/ /\ nFuncOps < MaxFuncOps
       /\ \E t \in Threads : SetFuncLock(t, "title", "user")
    \/ \E t \in Threads : SetFuncWrite(t)
    \/ /\ nCalls < RaceMaxCalls
       /\ \E t \in Threads : TmplVersion(t, << VPageA >>)
    \/ \E t \in Threads : (LockHeld => ~NeedsLock(t)) /\ RaceStep(t)
    \/ \E t \in Threads : (LockHeld => ~NeedsLock(t)) /\ TmplStep(t)

RaceSpec == Init /\ [][RaceNext]_vars

\* A sequential run over style sheets whose references form cycles, and
\* over the style sheet and its image, whose references do not.  The
\* recursion of Get through replaceProcessor is followed MaxDepth
\* activations deep.  A goroutine inside a call goes on taking steps.
CycMaxVersion == 3
CycMaxCalls == 2
MaxDepth == 4
CycFiles ==
    { << FCycA, VCycA >>, << FCycB, VCycB >>, << FSelf, VSelf >>,
      << FSheet, VSheet >>, << FLogo, VLogo >> }

CycStep == Step(1) /\ Len(th'[1].stack) <= MaxDepth

CycNext ==
    \/ /\ version < CycMaxVersion /\ Idle(1)
       /\ \E r \in CycFiles : AddFile(r[1], r[2])
    \/ /\ nCalls < CycMaxCalls
       /\ \E r \in CycFiles, via \in {"Get", "GetUrl"} : BeginGet(1, r[2], via)
    \/ /\ nCalls < CycMaxCalls
       /\ \E url \in Published : ServeLookup(1, url, NoRequest)
    \/ CycStep

CycSpec == Init /\ [][CycNext]_vars /\ WF_vars(CycStep)

(* ------------------------------- claims ------------------------------- *)

Allocated == 1..Len(files)
Done(t, kind) == th[t].stack = << >> /\ th[t].res.k = kind

\* C1: every File reachable through byChecksum has its Content set.
C1_PublishedHasContent ==
    \A h \in DOMAIN byChecksum : ~IsNil(files[byChecksum[h]].Content)

\* C2, as stated: the pipeline of a File completes (line 186 assigns its
\* Content) in at most one Get call.
C2_MaterializedOnce == \A f \in Allocated : sets[f] <= 1

\* A Get call passes line 140 into the pipeline.
EntersPipeline(t) ==
    /\ At(t, "Get", "check")
    /\ Len(th'[t].stack) = Len(th[t].stack)
    /\ th'[t].stack[Len(th[t].stack)].pc = "load"

\* C2, amended: a Get call runs the pipeline only if its own read of
\* file.Content at line 140 found it nil; a call that reads it once it is set
\* returns the File without running the pipeline.
C2_RunsOnlyIfAbsent ==
    [][\A t \in Threads : EntersPipeline(t) => IsNil(files[Top(t).file].Content)]_vars

\* Two calls have returned the same File and only one of them has assigned
\* its Content.
C2_Witness ==
    \E f \in Allocated :
        /\ sets[f] = 1
        /\ ~IsNil(files[f].Content)
        /\ \A t \in Threads : Done(t, "file") /\ th[t].res.v = f

\* C4: a File whose Content is set has the HashString and the ContentGZipped
\* of that Content.
C4_FieldsAgree ==
    \A f \in Allocated :
        ~IsNil(files[f].Content) =>
            /\ files[f].HashString = HexEncodeToString(Sha1(files[f].Content.v))
            /\ files[f].ContentGZipped = Bytes(Gzip(files[f].Content.v))

\* C10: a 200 response carries, gzip-encoded exactly when the request accepts
\* gzip, the content whose checksum the URL names.
C10_Negotiation ==
    \A t \in Threads :
        Done(t, "http") /\ th[t].res.v.status = 200 =>
            LET resp == th[t].res.v
                named == ChecksumOf(th[t].res.url)
            IN  IF AcceptsGzip(th[t].res.r)
                THEN /\ resp.enc = "gzip"
                     /\ HexEncodeToString(Sha1(Gunzip(resp.body))) = named
                ELSE /\ resp.enc = ""
                     /\ HexEncodeToString(Sha1(resp.body)) = named

\* C3: in a sequential run, once Get has materialized a File, no later step
\* runs its pipeline again or changes its content or its checksum.
C3_Idempotent ==
    [][\A f \in Allocated :
          sets[f] >= 1 => files'[f] = files[f] /\ sets'[f] = sets[f]]_vars

\* What a chain of transforms makes of text for the entry at virtualPath:
\* each transform applied to the output of the one before it, a rewriter
\* replacing every match by the public URL (baseURL + HashString, as the
\* heap fl has it) of the entry the rooted reference names in ent.  ok is
\* FALSE when a reference names no entry.
RECURSIVE ChainResult(_, _, _, _, _)
ChainResult(chain, virtualPath, text, fl, ent) ==
    IF chain = << >> THEN [ok |-> TRUE, v |-> text]
    ELSE IF Head(chain) = "stamp"
    THEN ChainResult(Tail(chain), virtualPath, text \o << Lit("!") >>, fl, ent)
    ELSE LET kind == IF Head(chain) = "css" THEN "url" ELSE "map"
             matches == { i \in 1..Len(text) : text[i].k = kind }
             Rooted(i) == getRooted(virtualPath, text[i].v)
         IN  IF \E i \in matches : Rooted(i) \notin DOMAIN ent
             THEN [ok |-> FALSE, v |-> << >>]
             ELSE ChainResult(Tail(chain), virtualPath,
                              [i \in 1..Len(text) |->
                                  IF i \in matches
                                  THEN [k |-> kind,
                                        v |-> BaseURL \o fl[ent[Rooted(i)]].HashString]
                                  ELSE text[i]],
                              fl, ent)

\* C5: when a Get call of a sequential run completes its pipeline (line 186),
\* the File's Content is the raw bytes of its source put through the chain
\* registered for the source's extension, in registration order (the raw
\* bytes themselves when the chain is empty), and its HashString is the
\* digest of that Content.
C5_ContentIsChainOfRaw ==
    [][\A t \in Threads :
          At(t, "Get", "setcontent") /\ th'[t] # th[t] =>
              LET f == Top(t).file
                  want == ChainResult(
                              Lookup(preprocessors, Ext(files[f].path), << >>),
                              Top(t).vp, Disk[files[f].path], files', entries)
              IN  /\ want.ok
                  /\ files'[f].Content.v = want.v
                  /\ files'[f].HashString = HexEncodeToString(Sha1(want.v))]_vars

\* The style sheet is materialized with its reference rewritten to the
\* image's public URL, and the image, which has no chain, with its raw bytes.
C5_Witness ==
    \E f, g \in Allocated :
        /\ files[f].path = FSheet
        /\ files[f].Content =
             Bytes(<< Lit("bg:"),
                      UrlRef(BaseURL \o HexEncodeToString(Sha1(<< Lit("PNG") >>))) >>)
        /\ files[g].path = FLogo
        /\ files[g].Content = Bytes(Disk[FLogo])

\* Whether s begins with prefix.
HasPrefix(s, prefix) ==
    Len(s) >= Len(prefix) /\ SubSeq(s, 1, Len(prefix)) = prefix

\* C9: Serve answers 404 with the body "404 - File not found" unless the URL
\* is baseURL followed by a published checksum.
C9_NotFoundUnlessPublished ==
    \A t \in Threads :
        Done(t, "http") =>
            LET url == th[t].res.url
            IN  /\ ~HasPrefix(url, BaseURL) => th[t].res.v = NotFound
                /\ th[t].res.v.status = 200 => ChecksumOf(url) \in DOMAIN byChecksum

\* C6: version changes only by a step that registers a file, and such a
\* step, whether the path is new or not, adds exactly 1 to it.
C6_VersionCountsAddFile ==
    [][IF entries' # entries THEN version' = version + 1
                             ELSE version' = version]_vars

\* The same path registered twice, then resolved, compiled and served.
C6_Witness ==
    /\ version = 2
    /\ DOMAIN entries = { VPageA }
    /\ byChecksum # << >>
    /\ Done(1, "http")
    /\ nTemplates >= 1

\* The step by which goroutine t returns from GetTemplate.
TmplReturns(t) ==
    /\ th[t].stack # << >>
    /\ th[t].stack[1].k = "Tmpl"
    /\ th'[t].stack = << >>

\* The non-empty paths of a list.
Paths(list) == { list[i] : i \in { j \in 1..Len(list) : list[j] # << >> } }

\* C7: a GetTemplate call of a sequential run that returns a template leaves
\* the cache stamped with the current version and holding only templates
\* built under it, and returns a template parsed from the content of the
\* files registered now; if the goroutine's previous call had returned a
\* template for the same list and a file was registered since, the template
\* returned is another one.
C7_Invalidation ==
    [][\A t \in Threads :
          TmplReturns(t) /\ th'[t].res.k = "tmpl" =>
              LET fr == th[t].stack[1]
                  got == th'[t].res.v
              IN  /\ templateCacheVersion' = version
                  /\ \A key \in DOMAIN templateCache' : templateCache'[key].v = version
                  /\ templateCache'[CacheKey(fr.list)] = got
                  /\ \A n \in DOMAIN got.defs :
                        LET src == got.defs[n].src
                        IN  /\ src \in Paths(fr.list) \cap DOMAIN entries
                            /\ got.defs[n] =
                                 ParseTemplates(src, files[entries[src]].Content)[n]
                  /\ (fr.prev.k = "tmpl" /\ fr.prev.list = fr.list
                          /\ fr.prev.ver < version)
                        => got.id # fr.prev.id]_vars

\* A list is compiled, its page is registered again with another chain, and
\* the list is compiled again: the template returned is a new one, parsed
\* from the new file.
C7_Witness ==
    /\ Done(1, "tmpl")
    /\ th[1].res.list = << VPageA >>
    /\ th[1].res.prev.k = "tmpl"
    /\ th[1].res.prev.list = << VPageA >>
    /\ th[1].res.prev.ver < th[1].res.ver
    /\ th[1].res.v.id # th[1].res.prev.id
    /\ th[1].res.v.defs[VPageA].tree = << Lit("a"), Lit("!") >>

\* The first path of list, in list order, whose source defines name n.
FirstDefiner(list, n, fl, ent) ==
    LET defines == { i \in 1..Len(list) :
                        /\ list[i] # << >>
                        /\ n \in DOMAIN ParseTemplates(list[i], fl[ent[list[i]]].Content) }
    IN  list[CHOOSE i \in defines : \A j \in defines : i <= j]

\* C8: a GetTemplate call of a sequential run over a list whose non-empty
\* paths are all registered returns a template; its namespace holds every
\* name some listed source defines, each with the definition of the first
\* listed source that defines it; empty paths contribute nothing; and the
\* template is cached under the list's own key, the entries of other lists
\* staying as they were.
C8_FirstDefinitionWins ==
    [][\A t \in Threads :
          TmplReturns(t) /\ Paths(th[t].stack[1].list) \subseteq DOMAIN entries =>
              LET list == th[t].stack[1].list
                  got == th'[t].res.v
                  Of(p) == ParseTemplates(p, files'[entries[p]].Content)
              IN  /\ th'[t].res.k = "tmpl"
                  /\ DOMAIN got.defs = UNION { DOMAIN Of(p) : p \in Paths(list) }
                  /\ \A n \in DOMAIN got.defs :
                        got.defs[n] = Of(FirstDefiner(list, n, files', entries))[n]
                  /\ templateCache'[CacheKey(list)] = got
                  /\ \A other \in TemplateLists \ { list } :
                        CacheKey(other) \in DOMAIN templateCache
                            => /\ CacheKey(other) \in DOMAIN templateCache'
                               /\ templateCache'[CacheKey(other)].id # got.id
                               /\ templateCache'[CacheKey(other)] =
                                     templateCache[CacheKey(other)]]_vars

\* Both orders of the two pages are compiled and cached side by side, each
\* with "header" from its first page, and a list with an empty path in it is
\* compiled from its other path alone.
C8_Witness ==
    LET ab == CacheKey(<< VPageA, VPageB >>)
        ba == CacheKey(<< VPageB, VPageA >>)
        header == << Seg("header") >>
    IN  /\ { ab, ba } \subseteq DOMAIN templateCache
        /\ templateCache[ab].defs[header].src = VPageA
        /\ templateCache[ba].defs[header].src = VPageB
        /\ templateCache[ab].id # templateCache[ba].id
        /\ Done(1, "tmpl")
        /\ th[1].res.list = << << >>, VPageB >>
        /\ DOMAIN th[1].res.v.defs = { VPageB, header }

\* The step by which goroutine t returns from a Get or GetUrl call it was
\* asked to make.
GetReturns(t) ==
    /\ th[t].stack # << >>
    /\ th[t].stack[1].k = "Get"
    /\ th'[t].stack = << >>

\* The error a Get of virtualPath has to return over the heap fl and the
\* entries ent, None if it has to succeed: no entry; nothing to do for an
\* entry with content; else the loader's error; else, for the first rewriter
\* of the chain with a reference that cannot be resolved, the error of the
\* last such reference.
RECURSIVE Failure(_, _, _)
RECURSIVE ChainFailure(_, _, _, _, _)
Failure(virtualPath, fl, ent) ==
    IF virtualPath \notin DOMAIN ent
    THEN Err(<< Seg("File Not Found: ") >> \o virtualPath)
    ELSE LET file == fl[ent[virtualPath]]
         IN  IF ~IsNil(file.Content) THEN None
             ELSE IF file.path \notin DOMAIN Disk THEN ReadFile(file.path)
             ELSE ChainFailure(Lookup(preprocessors, Ext(file.path), << >>),
                               virtualPath, Disk[file.path], fl, ent)

ChainFailure(chain, virtualPath, text, fl, ent) ==
    IF chain = << >> THEN None
    ELSE IF Head(chain) = "stamp"
    THEN ChainFailure(Tail(chain), virtualPath, text, fl, ent)
    ELSE LET kind == IF Head(chain) = "css" THEN "url" ELSE "map"
             Of(i) == Failure(getRooted(virtualPath, TrimSpace(text[i].v)), fl, ent)
             failing == { i \in 1..Len(text) : text[i].k = kind /\ Of(i) # None }
         IN  IF failing = { }
             THEN ChainFailure(Tail(chain), virtualPath, text, fl, ent)
             ELSE Of(CHOOSE i \in failing : \A j \in failing : j <= i)

\* C11: a Get call of a sequential run returns an error exactly when its
\* loader or one of its transforms fails, and then it returns that error,
\* the File is left without Content, ContentGZipped, Hash and HashString,
\* no key of byChecksum leads to it and line 186 was never run for it; and
\* a Get that finds the File without Content starts at the load step.
C11_FailureLeavesNothing ==
    [][\A t \in Threads :
          /\ GetReturns(t) =>
                LET fr == th[t].stack[1]
                    f == fr.file
                    \* the heap as the call leaves it, but for the Content
                    \* the call itself may have set after reading the source
                    heap == IF IsNil(fr.content) THEN files'
                            ELSE [files' EXCEPT ![f].Content = NilBytes]
                    e == Failure(fr.vp, heap, entries)
                IN  /\ (e # None) <=> (th'[t].res.k = "err")
                    /\ e # None =>
                          /\ th'[t].res = e
                          /\ files'[f].Content = NilBytes
                          /\ files'[f].ContentGZipped = NilBytes
                          /\ files'[f].Hash = NilBytes
                          /\ files'[f].HashString = << >>
                          /\ \A h \in DOMAIN byChecksum' : byChecksum'[h] # f
                          /\ sets'[f] = 0
          /\ (At(t, "Get", "check") /\ IsNil(files[Top(t).file].Content)
                 /\ th'[t] # th[t])
                => /\ Len(th'[t].stack) = Len(th[t].stack)
                   /\ th'[t].stack[Len(th[t].stack)].pc = "load"]_vars

\* The first call of the run resolves the style sheet while its first
\* reference names no entry: the call returns that reference's error after
\* it has resolved the image for the later references, and the style sheet
\* is left without content.
C11_Witness ==
    /\ Done(1, "err")
    /\ nCalls = 1
    /\ th[1].res = Err(<< Seg("File Not Found: ") >> \o VCopy)
    /\ { VTwo, VLogo } \subseteq DOMAIN entries
    /\ sets[entries[VLogo]] = 1
    /\ files[entries[VTwo]].Content = NilBytes
    /\ entries[VTwo] \notin { byChecksum[h] : h \in DOMAIN byChecksum }

\* A reference rooted as it stands: itself when it begins with the
\* separator, else joined to the directory of the virtual path.
StatedRooted(virtualPath, ref) ==
    IF ref[1] = Slash THEN ref ELSE Join(Dir(virtualPath), ref)

\* The same with the blanks around the reference removed first.
TrimmedRooted(virtualPath, ref) == StatedRooted(virtualPath, TrimSpace(ref))

\* At every step of line 186, each reference of the source that a rewriter
\* of the chain matches stands in the Content written as the same kind of
\* match around baseURL + HashString of the entry Rooted gives for it, no
\* longer as it was, and that entry has been materialized and its checksum
\* is a key of byChecksum.
RewrittenBy(Rooted(_, _)) ==
    \A t \in Threads :
        At(t, "Get", "setcontent") /\ th'[t] # th[t] =>
            LET fr == Top(t)
                f == fr.file
                raw == Disk[files[f].path]
                chain == Lookup(preprocessors, Ext(files[f].path), << >>)
                got == files'[f].Content.v
                Matched(i) == \E j \in 1..Len(chain) :
                                 /\ chain[j] \in {"css", "map"}
                                 /\ MatchKind(chain[j]) = raw[i].k
            IN  \A i \in 1..Len(raw) :
                    Matched(i) =>
                        LET target == Rooted(fr.vp, raw[i].v)
                        IN  /\ target \in DOMAIN entries
                            /\ got[i] = [k |-> raw[i].k,
                                         v |-> BaseURL \o files'[entries[target]].HashString]
                            /\ got[i] # raw[i]
                            /\ sets[entries[target]] >= 1
                            /\ files[entries[target]].HashString \in DOMAIN byChecksum

\* C12, as stated: in the content a successful Get of a sequential run
\* sets, every url(r) and sourceMappingURL=r is rewritten to the public URL
\* of rooted(r), r taken as written, and the entry of rooted(r) is
\* materialized and published.
C12_RewrittenAsWritten == [][RewrittenBy(StatedRooted)]_vars

\* C12, amended: the same with rooted(r) taken of r without the white
\* space around it.
C12_RewrittenTrimmed == [][RewrittenBy(TrimmedRooted)]_vars

\* One call resolves the style sheet: its three references, the absolute
\* one, the one with blanks around it and the source map, are rewritten,
\* and the two entries they name were materialized on the way.
C12_Witness ==
    LET url == BaseURL \o HexEncodeToString(Sha1(<< Lit("PNG") >>))
    IN  /\ nCalls = 1
        /\ Done(1, "file")
        /\ { VTwo, VLogo, VCopy } \subseteq DOMAIN entries
        /\ files[entries[VTwo]].Content =
              Bytes(<< UrlRef(url), Lit(";"), UrlRef(url), MapRef(url) >>)
        /\ sets[entries[VLogo]] = 1
        /\ sets[entries[VCopy]] = 1
        /\ files[entries[VLogo]].HashString \in DOMAIN byChecksum

\* C13: a step that changes templateFuncMap changes neither version nor
\* the template cache nor its stamp; a cached template keeps the bindings it
\* was compiled with; and no goroutine reads templateFuncMap (line 267)
\* while another is inside SetTemplateFunc writing it.
C13_SetFuncOnlyAndUnraced ==
    [][/\ templateFuncMap' # templateFuncMap =>
            /\ version' = version
            /\ templateCache' = templateCache
            /\ templateCacheVersion' = templateCacheVersion
       /\ \A key \in DOMAIN templateCache :
            (key \in DOMAIN templateCache'
                 /\ templateCache'[key].id = templateCache[key].id)
                => templateCache'[key].funcs = templateCache[key].funcs
       /\ \A t \in Threads :
            At(t, "Tmpl", "new") /\ th'[t] # th[t] => ~LockHeld]_vars

\* C14: asset and assetinline return the error "path argument must start
\* with '/'" for every argument that does not begin with '/', the empty
\* string included; for an argument that does, asset returns baseURL +
\* HashString of the entry and assetinline the entry's Content, or the error
\* of the resolution.
C14_ArgumentError ==
    [][\A t \in Threads :
          (th'[t] # th[t] /\ th'[t].stack = << >> /\ th'[t].res.k = "func") =>
              LET r == th'[t].res
              IN  IF r.arg = << >> \/ r.arg[1] # Slash
                  THEN /\ r.v = ArgumentError
                       /\ UNCHANGED << entries, byChecksum, files, version >>
                  ELSE /\ r.v.k \in {"str", "err"}
                       /\ r.v.k = "str" =>
                            /\ r.arg \in DOMAIN entries
                            /\ r.v.v = IF r.fn = "asset"
                                       THEN BaseURL \o files'[entries[r.arg]].HashString
                                       ELSE files'[entries[r.arg]].Content.v]_vars

\* The Files line 186 has run for.
Materialized == { f \in Allocated : sets[f] >= 1 }

\* C15: in a sequential run, GetUrl returns baseURL + the hex checksum of
\* the entry's content; two materialized Files have the same checksum, and
\* so the same URL, exactly when their contents are the same; and the
\* publication of a File puts it under its checksum, in place of any File
\* that was there, and takes no entry out of entries.
C15_ChecksumAddress ==
    [][/\ \A t \in Threads :
            (GetReturns(t) /\ th[t].stack[1].via = "GetUrl"
                 /\ th'[t].res.k # "err") =>
                LET file == files'[th[t].stack[1].file]
                IN  /\ th'[t].res.v = BaseURL \o file.HashString
                    /\ file.HashString = HexEncodeToString(Sha1(file.Content.v))
       /\ \A f, g \in Materialized :
            (files[f].Content.v = files[g].Content.v)
                <=> (BaseURL \o files[f].HashString = BaseURL \o files[g].HashString)
       /\ \A t \in Threads :
            (At(t, "Get", "publish") /\ th'[t] # th[t]) =>
                LET f == Top(t).file
                IN  /\ byChecksum'[files[f].HashString] = f
                    /\ \A h \in DOMAIN byChecksum \ { files[f].HashString } :
                          byChecksum'[h] = byChecksum[h]
                    /\ entries' = entries]_vars

\* The image and the copy of its bytes are both resolved, the copy last:
\* two entries, one checksum, and its key leads to the copy.
C15_Witness ==
    /\ nCalls = 2
    /\ Done(1, "file")
    /\ { VLogo, VCopy } \subseteq DOMAIN entries
    /\ th[1].res.v = entries[VCopy]
    /\ { entries[VLogo], entries[VCopy] } \subseteq Materialized
    /\ entries[VLogo] # entries[VCopy]
    /\ files[entries[VLogo]].HashString = files[entries[VCopy]].HashString
    /\ byChecksum[files[entries[VLogo]].HashString] = entries[VCopy]

\* C16: no step takes a key out of entries or out of byChecksum; a step that
\* registers a file puts a new File without content under its path, adds 1
\* to version and leaves byChecksum and every other File as they were; and
\* Serve answers 404 only for a URL whose checksum is no key of byChecksum.
C16_KeysOnlyGrow ==
    [][/\ DOMAIN entries \subseteq DOMAIN entries'
       /\ DOMAIN byChecksum \subseteq DOMAIN byChecksum'
       /\ entries' # entries =>
            /\ \E p \in DOMAIN entries' :
                  /\ entries'[p] = Len(files) + 1
                  /\ \A q \in DOMAIN entries \ { p } : entries'[q] = entries[q]
            /\ Len(files') = Len(files) + 1
            /\ files'[Len(files')].Content = NilBytes
            /\ files'[Len(files')].HashString = << >>
            /\ \A f \in Allocated : files'[f] = files[f]
            /\ version' = version + 1
            /\ byChecksum' = byChecksum
       /\ \A t \in Threads :
            (th'[t] # th[t] /\ th'[t].stack = << >> /\ th'[t].res.k = "http"
                 /\ th'[t].res.v = NotFound)
                => ChecksumOf(th'[t].res.url) \notin DOMAIN byChecksum]_vars

\* A materialized path is registered again: its entry is a new File without
\* content, the old checksum still leads to the old File, and a Serve call
\* made after that has answered with the old File's bytes.
C16_Witness ==
    /\ version = 2
    /\ DOMAIN entries = { VLogo }
    /\ entries[VLogo] = 2
    /\ files[2].Content = NilBytes
    /\ 1 \in Materialized
    /\ files[1].HashString \in DOMAIN byChecksum
    /\ byChecksum[files[1].HashString] = 1
    /\ \E t \in Threads :
          /\ Done(t, "http")
          /\ th[t].res.url = BaseURL \o files[1].HashString
          /\ th[t].res.v.status = 200
          /\ th[t].res.v.body = files[1].Content.v
          /\ files[1].Content.v # << >>

\* The entries the source of virtualPath refers to through the rewriters of
\* its chain.
RefsOf(virtualPath) ==
    IF virtualPath \notin DOMAIN entries THEN { }
    ELSE LET path == files[entries[virtualPath]].path
             chain == Lookup(preprocessors, Ext(path), << >>)
             kinds == { MatchKind(chain[j]) :
                          j \in { i \in 1..Len(chain) : chain[i] \in {"css", "map"} } }
         IN  IF path \notin DOMAIN Disk THEN { }
             ELSE { getRooted(virtualPath, TrimSpace(Disk[path][i].v)) :
                      i \in { j \in 1..Len(Disk[path]) : Disk[path][j].k \in kinds } }

\* The paths reached from a set of paths in at most n steps of RefsOf.
RECURSIVE Reach(_, _)
Reach(from, n) ==
    IF n = 0 THEN from
    ELSE Reach(from \cup UNION { RefsOf(q) : q \in from }, n - 1)

\* A cycle of references can be reached from virtualPath.
Cyclic(virtualPath) ==
    LET n == Cardinality(DOMAIN entries)
    IN  \E q \in Reach({ virtualPath }, n) : q \in Reach(RefsOf(q), n)

\* C17: in a sequential run a Get or GetUrl call returns only for a path
\* from which no cycle of references is reached, and for such a path it
\* does return; once a path is being resolved inside its own resolution, no
\* activation of the call returns any more.
C17_TerminatesIffAcyclic ==
    /\ [][\A t \in Threads :
             /\ GetReturns(t) => ~Cyclic(th[t].stack[1].vp)
             /\ (\E i, j \in 1..Len(th[t].stack) :
                    /\ i < j
                    /\ th[t].stack[i].k = "Get" /\ th[t].stack[j].k = "Get"
                    /\ th[t].stack[i].vp = th[t].stack[j].vp)
                   => Len(th'[t].stack) >= Len(th[t].stack)]_vars
    /\ (th[1].stack # << >> /\ th[1].stack[1].k = "Get"
            /\ ~Cyclic(th[1].stack[1].vp))
          ~> (th[1].stack = << >>)

\* Get of one of the two style sheets that refer to each other has entered
\* itself, and entered itself again.
C17_Witness ==
    /\ Len(th[1].stack) = MaxDepth
    /\ \A i \in 1..MaxDepth :
          /\ th[1].stack[i].k = "Get"
          /\ th[1].stack[i].vp = IF i % 2 = 1 THEN VCycA ELSE VCycB

\* The cache is stamped with the current version and holds key.
Fresh(key) == templateCacheVersion = version /\ key \in DOMAIN templateCache

\* The message msg holds the path p.
Names(msg, p) ==
    \E i \in 1..Len(msg) : i + Len(p) - 1 <= Len(msg) /\ SubSeq(msg, i, i + Len(p) - 1) = p

\* A step that is no registration leaves a fresh cache fresh, its entry
\* for the list of the page in place and the same.
C18_EntryKept ==
    LET key == CacheKey(<< VPageA >>)
    IN  (Fresh(key) /\ version' = version) =>
            /\ templateCacheVersion' = templateCacheVersion
            /\ key \in DOMAIN templateCache'
            /\ templateCache'[key] = templateCache[key]

\* A GetTemplate call that returns while the cache is fresh returns the
\* cached template.
C18_ServedFromCache ==
    \A t \in Threads :
        (TmplReturns(t) /\ Fresh(CacheKey(th[t].stack[1].list)) /\ version' = version) =>
            /\ th'[t].res.k = "tmpl"
            /\ th'[t].res.v = templateCache[CacheKey(th[t].stack[1].list)]

\* A GetTemplate call that fails returns an error naming a path of its list
\* and stores nothing.
C18_FailureStoresNothing ==
    \A t \in Threads :
        (TmplReturns(t) /\ th'[t].res.k = "err") =>
            /\ \E q \in Paths(th[t].stack[1].list) : Names(th'[t].res.v, q)
            /\ \A key \in DOMAIN templateCache' :
                  key \in DOMAIN templateCache /\ templateCache'[key] = templateCache[key]

\* C18: with any number of goroutines inside GetTemplate, once the cache is
\* stamped with the current version and holds the key of a list, every
\* GetTemplate call for the list returns that cached template and the entry
\* is neither replaced nor removed until AddFile changes version; a call
\* that fails returns an error naming the path and stores nothing.
C18_CacheStateMachine ==
    [][C18_EntryKept /\ C18_ServedFromCache /\ C18_FailureStoresNothing]_vars

\* The templates a compilation of the entry registered under src now gives;
\* the pages have no preprocessors, so string(file.Content) is the source.
CompiledNow(src) == ParseTemplates(src, ReadFile(files[entries[src]].path))

\* C19: in every reachable state, with GetTemplate and AddFile running
\* concurrently, every template in a cache stamped with the current version
\* was compiled from the entries registered now: a compilation that read its
\* sources before AddFile changed version leaves nothing in the cache that
\* was rebuilt after the change.
C19_NoStaleTemplate ==
    templateCacheVersion = version =>
        \A key \in DOMAIN templateCache :
            \A n \in DOMAIN templateCache[key].defs :
                LET src == templateCache[key].defs[n].src
                IN  /\ src \in DOMAIN entries
                    /\ n \in DOMAIN CompiledNow(src)
                    /\ templateCache[key].defs[n] = CompiledNow(src)[n]

\* The step by which goroutine t returns from Serve.
ServeReturns(t) ==
    /\ th'[t] # th[t]
    /\ th'[t].stack = << >>
    /\ th'[t].res.k = "http"

\* The entries that are materialized and whose public URL is url.
AskedFor(url) ==
    { p \in DOMAIN entries :
         /\ entries[p] \in Materialized
         /\ url = BaseURL \o files[entries[p]].HashString }

\* Serve on the public URL of a resolved entry answers 200 with the entry's
\* Content.
C20_OwnContent ==
    \A t \in Threads :
        ServeReturns(t) =>
            \A p \in AskedFor(th'[t].res.url) :
                /\ th'[t].res.v.status = 200
                /\ th'[t].res.v.body = files[entries[p]].Content.v

\* C20: in a sequential run, Serve on the public URL of a resolved entry p,
\* whatever was registered and resolved besides, answers with p's own
\* Content and p's own ContentType.
C20_ServesWhatWasAsked ==
    [][/\ C20_OwnContent
       /\ \A t \in Threads :
            ServeReturns(t) =>
                \A p \in AskedFor(th'[t].res.url) :
                    th'[t].res.v.ctype = files[entries[p]].ContentType]_vars

====
